---- MODULE Spec2Model ----
(***************************************************************************)
(* Model of app.py, the sales performance dashboard: the cached load_data  *)
(* step (read, rename, percentage normalisation), the empty-table guard,   *)
(* and the derived views of one render pass (region filter, KPIs, top and  *)
(* bottom ranking, regional rollup with bar colours, support list).        *)
(*                                                                         *)
(* Numbers are exact fixed-point integers in units of 1/10000, so that     *)
(* 1.0 is 10000 and "67.80%" parses to 678000 before the division by 100.  *)
(* Binary floating-point rounding and NaN cells are not modelled.          *)
(***************************************************************************)
EXTENDS Integers, Sequences, FiniteSets, TLC

VARIABLES
    file,              \* sales_data.csv on disk: missing, unreadable or a raw table
    cache,             \* st.cache_data entry of load_data: unfilled or the returned table
    reads,             \* number of pd.read_csv calls made by the process
    pc,                \* position of the script in the current render pass
    message,           \* what the pass surfaced: "none", "error", "exception", "info"
    df,                \* module-level df of the current pass
    selected_states,   \* value of the region multiselect
    target_threshold,  \* value of the threshold slider
    df_filtered,       \* region-filtered table
    kpi,               \* the four metrics
    ranking,           \* salesmen_rank, top_5, bottom_5 and their concatenation
    fig_region,        \* the regional chart: bars in plotted order, marker colours
    df_support,        \* support list
    first_load,        \* history: the table returned by the first load that returned
    rn                 \* rename study: a schema and its once/twice renamed forms

vars == <<file, cache, reads, pc, message, df, selected_states, target_threshold,
          df_filtered, kpi, ranking, fig_region, df_support, first_load, rn>>

-----------------------------------------------------------------------------
(* Bounds of the model *)

\* longest file drawn by Init of Spec
MaxRows == 2
\* read_csv calls counted before a new pass is no longer started
MaxReads == 3
\* longest file drawn by InitRank (the files start at TopN + BottomN rows)
MaxRankRows == 11
\* longest schema drawn by InitRename
MaxCols == 3

-----------------------------------------------------------------------------
(* Program constants *)

Hundred == 100
TargetMet == 10000
SliderMin == 0
SliderMax == 10000
SliderDefault == 6000
SliderStep == 500
TopN == 5
BottomN == 5

AllRegions == "All Regions"

\* 10000 units make 1.0
Unit == Hundred * Hundred

SliderValues == { SliderMin + k * SliderStep : k \in 0..((SliderMax - SliderMin) \div SliderStep) }

-----------------------------------------------------------------------------
(* Text cells and float parsing *)

DigitVal ==
    [c \in {"0", "1", "2", "3", "4", "5", "6", "7", "8", "9"} |->
        CASE c = "0" -> 0 [] c = "1" -> 1 [] c = "2" -> 2 [] c = "3" -> 3
          [] c = "4" -> 4 [] c = "5" -> 5 [] c = "6" -> 6 [] c = "7" -> 7
          [] c = "8" -> 8 [] c = "9" -> 9]

IsDigit(c) == c \in DOMAIN DigitVal

\* Series.str.replace('%', ''): every '%' of the text is removed
StripPct(s) == SelectSeq(s, LAMBDA c : c # "%")

\* the texts float() accepts among digit/point texts: digits with at most one point
IsNumber(s) ==
    /\ \E i \in 1..Len(s) : IsDigit(s[i])
    /\ \A i \in 1..Len(s) : IsDigit(s[i]) \/ s[i] = "."
    /\ Cardinality({i \in 1..Len(s) : s[i] = "."}) <= 1

RECURSIVE DigitsValue(_)
DigitsValue(s) ==
    IF s = <<>> THEN 0 ELSE 10 * DigitsValue(SubSeq(s, 1, Len(s) - 1)) + DigitVal[s[Len(s)]]

RECURSIVE Pow10(_)
Pow10(n) == IF n = 0 THEN 1 ELSE 10 * Pow10(n - 1)

\* float(s) in units of 1/Unit, for a text with IsNumber(s)
ParseFloat(s) ==
    LET dots == {i \in 1..Len(s) : s[i] = "."}
        p    == IF dots = {} THEN Len(s) + 1 ELSE CHOOSE i \in dots : TRUE
        int  == SubSeq(s, 1, p - 1)
        frac == SubSeq(s, p + 1, Len(s))
    IN  DigitsValue(int) * Unit + (DigitsValue(frac) * Unit) \div Pow10(Len(frac))

-----------------------------------------------------------------------------
(* Tables *)

\* a table: column names in order, a dtype per column, rows carrying their index label
Frame(columns, dtypes, rows) == [columns |-> columns, dtypes |-> dtypes, rows |-> rows]

\* pd.DataFrame()
EmptyFrame == Frame(<<>>, <<>>, <<>>)

ColumnSet(t) == {t.columns[i] : i \in 1..Len(t.columns)}

\* DataFrame.empty: no rows or no columns
IsEmpty(t) == Len(t.rows) = 0 \/ Len(t.columns) = 0

Row(index, cells) == [index |-> index, cells |-> cells]

Indexes(rows) == {rows[i].index : i \in 1..Len(rows)}

SourceHeader ==
    <<"Emp Code", "Sales Executive", "Region", "Total Sales", "Target",
      "Target Hit %", "Away From Target %">>

\* the columns whose cells the file holds as text that may carry a '%'
PctSourceColumns == {"Target Hit %", "Away From Target %", "Target_Hit_Pct", "Away_From_Target_Pct"}

NumericSourceColumns == {"Total Sales", "Total_Sales", "Target"}

\* pd.read_csv: a percentage column whose every cell is a number is parsed to float64,
\* any other text column stays text (object); rows get the labels 0, 1, ...
ReadCsv(raw) ==
    LET n       == Len(raw.rows)
        cols    == {raw.columns[i] : i \in 1..Len(raw.columns)}
        numeric == [c \in cols |->
                       /\ c \in PctSourceColumns
                       /\ n > 0
                       /\ \A i \in 1..n : IsNumber(raw.rows[i][c])]
        dtype(c) == IF numeric[c] THEN "float64"
                    ELSE IF c \in NumericSourceColumns /\ n > 0 THEN "int64"
                    ELSE "object"
    IN  Frame(raw.columns,
              [c \in cols |-> dtype(c)],
              [i \in 1..n |->
                  Row(i - 1, [c \in cols |->
                      IF numeric[c] THEN ParseFloat(raw.rows[i][c]) ELSE raw.rows[i][c]])])

\* the columns= mapping of df.rename
RenameMap ==
    [c \in {"Emp Code", "Sales Executive", "Total Sales", "Target Hit %", "Away From Target %"} |->
        CASE c = "Emp Code" -> "Emp_Code"
          [] c = "Sales Executive" -> "Sales_Executive"
          [] c = "Total Sales" -> "Total_Sales"
          [] c = "Target Hit %" -> "Target_Hit_Pct"
          [] c = "Away From Target %" -> "Away_From_Target_Pct"]

\* RenameColumn with a map that also sends each new name back to its old one
RenameColumnSwap(c) ==
    IF c \in DOMAIN RenameMap THEN RenameMap[c]
    ELSE IF \E o \in DOMAIN RenameMap : RenameMap[o] = c
         THEN CHOOSE o \in DOMAIN RenameMap : RenameMap[o] = c
         ELSE c

\* the new name of one column: mapped names change, every other name passes through
RenameColumn(c) == IF c \in DOMAIN RenameMap THEN RenameMap[c] ELSE c

\* the schema after df.rename(columns=RenameMap)
RenameColumns(columns) == [i \in 1..Len(columns) |-> RenameColumn(columns[i])]

\* df.rename(columns=RenameMap): cells and dtypes follow their column to its new name
Rename(t) ==
    LET new    == RenameColumns(t.columns)
        newSet == {new[i] : i \in 1..Len(new)}
        old    == [c \in newSet |-> CHOOSE o \in ColumnSet(t) : RenameColumn(o) = c]
    IN  Frame(new,
              [c \in newSet |-> t.dtypes[old[c]]],
              [i \in 1..Len(t.rows) |->
                  Row(t.rows[i].index, [c \in newSet |-> t.rows[i].cells[old[c]]])])

PctColumns == <<"Target_Hit_Pct", "Away_From_Target_Pct">>

\* the guard of the conversion loop: the column exists and holds text
NeedsConversion(t, col) == col \in ColumnSet(t) /\ t.dtypes[col] = "object"

\* astype(float) raises on a text that is not a number once its '%' are removed
ConversionRaises(t, col) ==
    /\ NeedsConversion(t, col)
    /\ \E i \in 1..Len(t.rows) : ~IsNumber(StripPct(t.rows[i].cells[col]))

\* ConvertCell without the division by 100
ConvertCellNoDivision(x) == ParseFloat(StripPct(x))

\* one cell of the conversion: strip '%', parse, divide by 100
ConvertCell(x) == ParseFloat(StripPct(x)) \div Hundred

\* one pass of the conversion loop over column col
ConvertColumn(t, col) ==
    IF NeedsConversion(t, col)
    THEN Frame(t.columns,
               [t.dtypes EXCEPT ![col] = "float64"],
               [i \in 1..Len(t.rows) |->
                   Row(t.rows[i].index,
                       [t.rows[i].cells EXCEPT ![col] = ConvertCell(t.rows[i].cells[col])])])
    ELSE t

\* LoadDataBody with the conversion failure swallowed: the renamed table is returned
LoadDataBodySwallow(f) ==
    IF ~f.exists
    THEN [outcome |-> "returned", error |-> TRUE, value |-> EmptyFrame]
    ELSE IF ~f.readable
    THEN [outcome |-> "raised", error |-> FALSE, value |-> EmptyFrame]
    ELSE [outcome |-> "returned", error |-> FALSE, value |-> Rename(ReadCsv(f))]

\* the body of load_data, run on a cache miss: what it returns or that it raises; only
\* FileNotFoundError is caught, any other failure of read_csv or of the conversion raises
LoadDataBody(f) ==
    IF ~f.exists
    THEN [outcome |-> "returned", error |-> TRUE, value |-> EmptyFrame]
    ELSE IF ~f.readable
    THEN [outcome |-> "raised", error |-> FALSE, value |-> EmptyFrame]
    ELSE LET renamed == Rename(ReadCsv(f))
         IN  IF ConversionRaises(renamed, PctColumns[1])
             THEN [outcome |-> "raised", error |-> FALSE, value |-> EmptyFrame]
             ELSE LET first == ConvertColumn(renamed, PctColumns[1])
                  IN  IF ConversionRaises(first, PctColumns[2])
                      THEN [outcome |-> "raised", error |-> FALSE, value |-> EmptyFrame]
                      ELSE [outcome |-> "returned", error |-> FALSE,
                            value |-> ConvertColumn(first, PctColumns[2])]

-----------------------------------------------------------------------------
(* Derived views *)

Col(t, i, c) == t.rows[i].cells[c]

\* a mean kept exact as sum over count; a count of 0 is the NaN of an empty mean
Rat(num, den) == [num |-> num, den |-> den]

RatLess(a, b) == a.num * b.den < b.num * a.den

RatGeq(a, k) == a.den > 0 /\ a.num >= k * a.den

RECURSIVE SumSeq(_)
SumSeq(s) == IF s = <<>> THEN 0 ELSE s[1] + SumSeq(Tail(s))

\* sorted() of the region names the files use
RegionOrder == <<"East", "North", "South">>

RegionRank(r) == CHOOSE i \in 1..Len(RegionOrder) : RegionOrder[i] = r

\* the order in which sort_values leaves equal keys is not fixed by its default kind
TieOrders == {"kept", "reversed"}

\* sort_values: the positions of keys in sorted order, equal keys as tie says
SortPerm(keys, ascending, tie) ==
    LET n == Len(keys)
        before(j, i) ==
            \/ IF ascending THEN RatLess(keys[j], keys[i]) ELSE RatLess(keys[i], keys[j])
            \/ /\ ~RatLess(keys[j], keys[i])
               /\ ~RatLess(keys[i], keys[j])
               /\ IF tie = "kept" THEN j < i ELSE j > i
        rank == [i \in 1..n |-> Cardinality({j \in 1..n : before(j, i)})]
    IN  [k \in 1..n |-> CHOOSE i \in 1..n : rank[i] = k - 1]

SortRows(rows, keys, ascending, tie) ==
    LET perm == SortPerm(keys, ascending, tie)
    IN  [k \in 1..Len(rows) |-> rows[perm[k]]]

HeadRows(rows, n) == SubSeq(rows, 1, IF Len(rows) < n THEN Len(rows) ELSE n)

TailRows(rows, n) == SubSeq(rows, IF Len(rows) < n THEN 1 ELSE Len(rows) - n + 1, Len(rows))

\* df['Region'].unique()
RegionsOf(t) == {t.rows[i].cells["Region"] : i \in 1..Len(t.rows)}

\* the options of the multiselect
all_states(t) == {AllRegions} \cup RegionsOf(t)

\* ApplyRegionFilter with the mask negated
ApplyRegionFilterNegated(t, selected) ==
    IF AllRegions \notin selected
    THEN Frame(t.columns, t.dtypes,
               SelectSeq(t.rows, LAMBDA r : r.cells["Region"] \notin selected))
    ELSE t

\* the region filter: every row on the sentinel, else the rows of the selected regions
ApplyRegionFilter(t, selected) ==
    IF AllRegions \notin selected
    THEN Frame(t.columns, t.dtypes,
               SelectSeq(t.rows, LAMBDA r : r.cells["Region"] \in selected))
    ELSE t

\* DfAfterFilter with the filter applied in place
DfFilteredInPlace(t, selected) ==
    IF AllRegions \notin selected
    THEN Frame(t.columns, t.dtypes,
               SelectSeq(t.rows, LAMBDA r : r.cells["Region"] \in selected))
    ELSE t

\* what the filter step leaves in df: boolean indexing and copy() build new tables
DfAfterFilter(t, selected) == t

\* the four metrics of row 1
Kpis(t) ==
    LET n == Len(t.rows)
    IN  [total_sales |-> SumSeq([i \in 1..n |-> Col(t, i, "Total_Sales")]),
         avg_target_hit |-> Rat(SumSeq([i \in 1..n |-> Col(t, i, "Target_Hit_Pct")]) * Hundred, n),
         total_salesmen |-> Cardinality({Col(t, i, "Emp_Code") : i \in 1..n}),
         target_achieved_count |->
             Cardinality({i \in 1..n : Col(t, i, "Target_Hit_Pct") >= TargetMet})]

NoKpis == [total_sales |-> 0, avg_target_hit |-> Rat(0, 0), total_salesmen |-> 0,
           target_achieved_count |-> 0]

\* salesmen_rank: the filtered rows by Total_Sales, largest first
SalesmenRank(t, tie) ==
    SortRows(t.rows, [i \in 1..Len(t.rows) |-> Rat(Col(t, i, "Total_Sales"), 1)], FALSE, tie)

top_5(rank) == HeadRows(rank, TopN)

\* bottom_5 taken with head instead of tail
bottom_5_head(rank) == HeadRows(rank, BottomN)

bottom_5(rank) == TailRows(rank, BottomN)

Ranking(t, tie) ==
    LET rank == SalesmenRank(t, tie)
    IN  [salesmen_rank |-> rank, top_5 |-> top_5(rank), bottom_5 |-> bottom_5(rank),
         top_bottom_df |-> top_5(rank) \o bottom_5(rank)]

NoRanking == [salesmen_rank |-> <<>>, top_5 |-> <<>>, bottom_5 |-> <<>>, top_bottom_df |-> <<>>]

\* groupby('Region').agg(mean, sum).reset_index(): one row per region, in key order
region_agg(t) ==
    LET regions == RegionsOf(t)
        keys    == SelectSeq(RegionOrder, LAMBDA r : r \in regions)
        of(r)   == SelectSeq(t.rows, LAMBDA x : x.cells["Region"] = r)
        hits(r) == [i \in 1..Len(of(r)) |-> of(r)[i].cells["Target_Hit_Pct"]]
        sales(r) == [i \in 1..Len(of(r)) |-> of(r)[i].cells["Total_Sales"]]
    IN  [k \in 1..Len(keys) |->
            [Region |-> keys[k],
             Avg_Target_Hit |-> Rat(SumSeq(hits(keys[k])), Len(of(keys[k]))),
             Total_Sales |-> SumSeq(sales(keys[k]))]]

\* the colour list handed to update_traces, built from region_agg as it stands
MarkerColors(agg) ==
    [k \in 1..Len(agg) |-> IF RatGeq(agg[k].Avg_Target_Hit, TargetMet) THEN "green" ELSE "red"]

\* the regional chart: bars are the rollup sorted by average, largest first; the
\* i-th colour of marker_color paints the i-th bar
FigRegion(t, tie) ==
    LET agg     == region_agg(t)
        plotted == SortRows(agg, [k \in 1..Len(agg) |-> agg[k].Avg_Target_Hit], FALSE, tie)
    IN  [region_agg |-> agg,
         x |-> [k \in 1..Len(plotted) |-> plotted[k].Region],
         y |-> [k \in 1..Len(plotted) |-> plotted[k].Avg_Target_Hit],
         marker_color |-> MarkerColors(agg)]

NoFig == [region_agg |-> <<>>, x |-> <<>>, y |-> <<>>, marker_color |-> <<>>]

\* BelowThreshold with <= for <
AtOrBelowThreshold(hit, threshold) == hit <= threshold

\* the mask of the support list
BelowThreshold(hit, threshold) == hit < threshold

\* df_support: the filtered rows under the threshold, smallest Target_Hit_Pct first
SupportList(t, threshold, tie) ==
    LET below == SelectSeq(t.rows, LAMBDA r : BelowThreshold(r.cells["Target_Hit_Pct"], threshold))
    IN  SortRows(below, [i \in 1..Len(below) |-> Rat(below[i].cells["Target_Hit_Pct"], 1)], TRUE, tie)

-----------------------------------------------------------------------------
(* Files *)

SourceColumns == {SourceHeader[i] : i \in 1..Len(SourceHeader)}

RawRow(emp, name, region, sales, target, hit, away) ==
    [c \in SourceColumns |->
        CASE c = "Emp Code" -> emp
          [] c = "Sales Executive" -> name
          [] c = "Region" -> region
          [] c = "Total Sales" -> sales
          [] c = "Target" -> target
          [] c = "Target Hit %" -> hit
          [] c = "Away From Target %" -> away]

\* the rows the files of Spec are made of: percentages as "NN.NN%" texts and as plain
\* ratios, both sides of 1.0 and of the default threshold, one text that is no number
SampleRows ==
    { RawRow(101, "Asha",  "North", 100, 200, <<"5","0",".","0","0","%">>, <<"5","0",".","0","0","%">>),
      RawRow(102, "Ravi",  "South", 300, 250, <<"1","2","0","%">>,         <<"0","%">>),
      RawRow(103, "Meena", "North", 200, 600, <<"3","0","%">>,             <<"7","0","%">>),
      RawRow(101, "Asha",  "South", 100, 200, <<"0",".","5">>,             <<"0",".","5">>),
      RawRow(104, "Kiran", "North", 400, 300, <<"1",".","2">>,             <<"0",".","0">>),
      RawRow(105, "Divya", "South", 250, 500, <<"n","/","a">>,             <<"1","0","%">>),
      RawRow(106, "Omar",  "South", 150, 250, <<"6","0",".","0","0","%">>, <<"0",".","4">>) }

RawFile(rows) == [exists |-> TRUE, readable |-> TRUE, columns |-> SourceHeader, rows |-> rows]

MissingFile == [exists |-> FALSE, readable |-> FALSE, columns |-> <<>>, rows |-> <<>>]

\* a file that is there and that read_csv cannot read (no permission, no parsable content)
UnreadableFile == [exists |-> TRUE, readable |-> FALSE, columns |-> <<>>, rows |-> <<>>]

Files == {MissingFile, UnreadableFile} \cup {RawFile(rows) : rows \in UNION {[1..n -> SampleRows] : n \in 0..MaxRows}}

\* the rows of the ranking files: one row per salesperson, sales drawn from two amounts
RankSales == {100, 200}

RankRow(i, sales) ==
    RawRow(100 + i, "Rep", "North", sales, 200, <<"5","0","%">>, <<"5","0","%">>)

RankFiles ==
    {RawFile([i \in DOMAIN s |-> RankRow(i, s[i])]) :
        s \in UNION {[1..n -> RankSales] : n \in (TopN + BottomN)..MaxRankRows}}

\* the column names the schemas of the rename study are made of
SchemaNames ==
    (DOMAIN RenameMap) \cup {RenameMap[c] : c \in DOMAIN RenameMap} \cup {"Region", "Target"}

Schemas ==
    {s \in UNION {[1..n -> SchemaNames] : n \in 1..MaxCols} :
        \A i, j \in 1..Len(s) : i # j => s[i] # s[j]}

-----------------------------------------------------------------------------
(* The process: render passes over the cached load *)

NoCache == [filled |-> FALSE, error |-> FALSE, value |-> EmptyFrame]

NoLoad == [set |-> FALSE, value |-> EmptyFrame]

IdleRename == [cols |-> <<>>, once |-> <<>>, twice |-> <<>>, step |-> 2]

\* the state of a fresh process with file f on disk and the widgets at their defaults
Fresh(f) ==
    /\ file = f
    /\ cache = NoCache
    /\ reads = 0
    /\ pc = "start"
    /\ message = "none"
    /\ df = EmptyFrame
    /\ selected_states = {AllRegions}
    /\ target_threshold = SliderDefault
    /\ df_filtered = EmptyFrame
    /\ kpi = NoKpis
    /\ ranking = NoRanking
    /\ fig_region = NoFig
    /\ df_support = <<>>
    /\ first_load = NoLoad

Init ==
    /\ \E f \in Files : Fresh(f)
    /\ rn = IdleRename

\* CacheHit of a load_data without the cache decorator
CacheNeverHits(c) == FALSE

\* st.cache_data: a stored entry answers the call without running the body
CacheHit(c) == c.filled

\* st.cache_data stores what the body returns; a call that raises stores nothing
CacheStore(c, res) ==
    IF res.outcome = "returned"
    THEN [filled |-> TRUE, error |-> res.error, value |-> res.value]
    ELSE c

\* df = load_data(); st.error is part of the cached call and shows again on a hit
LoadData ==
    /\ pc = "start"
    /\ IF CacheHit(cache)
       THEN /\ df' = cache.value
            /\ message' = IF cache.error THEN "error" ELSE message
            /\ pc' = "guard"
            /\ UNCHANGED <<cache, reads, first_load>>
       ELSE /\ reads < MaxReads
            /\ reads' = reads + 1
            /\ LET res == LoadDataBody(file)
               IN  /\ cache' = CacheStore(cache, res)
                   /\ IF res.outcome = "raised"
                      THEN /\ pc' = "halted"
                           /\ message' = "exception"
                           /\ UNCHANGED <<df, first_load>>
                      ELSE /\ pc' = "guard"
                           /\ message' = IF res.error THEN "error" ELSE message
                           /\ df' = res.value
                           /\ first_load' = IF first_load.set THEN first_load
                                            ELSE [set |-> TRUE, value |-> res.value]
    /\ UNCHANGED <<file, selected_states, target_threshold, df_filtered, kpi, ranking,
                   fig_region, df_support, rn>>

\* ShouldStop of a guard that never fires
ShouldStopNever(t) == FALSE

\* if df.empty: st.stop()
ShouldStop(t) == IsEmpty(t)

EmptyGuard ==
    /\ pc = "guard"
    /\ pc' = IF ShouldStop(df) THEN "stopped" ELSE "filter"
    /\ UNCHANGED <<file, cache, reads, message, df, selected_states, target_threshold,
                   df_filtered, kpi, ranking, fig_region, df_support, first_load, rn>>

Filter ==
    /\ pc = "filter"
    /\ df_filtered' = ApplyRegionFilter(df, selected_states)
    /\ df' = DfAfterFilter(df, selected_states)
    /\ pc' = "kpis"
    /\ UNCHANGED <<file, cache, reads, message, selected_states, target_threshold,
                   kpi, ranking, fig_region, df_support, first_load, rn>>

ComputeKpis ==
    /\ pc = "kpis"
    /\ kpi' = Kpis(df_filtered)
    /\ pc' = "ranking"
    /\ UNCHANGED <<file, cache, reads, message, df, selected_states, target_threshold,
                   df_filtered, ranking, fig_region, df_support, first_load, rn>>

RankSalesmen ==
    /\ pc = "ranking"
    /\ \E tie \in TieOrders : ranking' = Ranking(df_filtered, tie)
    /\ pc' = "rollup"
    /\ UNCHANGED <<file, cache, reads, message, df, selected_states, target_threshold,
                   df_filtered, kpi, fig_region, df_support, first_load, rn>>

Rollup ==
    /\ pc = "rollup"
    /\ \E tie \in TieOrders : fig_region' = FigRegion(df_filtered, tie)
    /\ pc' = "support"
    /\ UNCHANGED <<file, cache, reads, message, df, selected_states, target_threshold,
                   df_filtered, kpi, ranking, df_support, first_load, rn>>

Support ==
    /\ pc = "support"
    /\ \E tie \in TieOrders : df_support' = SupportList(df_filtered, target_threshold, tie)
    /\ message' = IF df_support' = <<>> THEN "info" ELSE message
    /\ pc' = "done"
    /\ UNCHANGED <<file, cache, reads, df, selected_states, target_threshold,
                   df_filtered, kpi, ranking, fig_region, first_load, rn>>

\* a rerun starts the script over: its variables are gone, the cache and widgets stay
StartOver ==
    /\ pc' = "start"
    /\ message' = "none"
    /\ df' = EmptyFrame
    /\ df_filtered' = EmptyFrame
    /\ kpi' = NoKpis
    /\ ranking' = NoRanking
    /\ fig_region' = NoFig
    /\ df_support' = <<>>
    /\ UNCHANGED <<file, cache, reads, first_load, rn>>

\* the user changes the region multiselect of the rendered page, which reruns the script
SelectRegions ==
    /\ pc = "done"
    /\ \E sel \in SUBSET all_states(df) :
          /\ sel # selected_states
          /\ selected_states' = sel
    /\ UNCHANGED target_threshold
    /\ StartOver

\* the user moves the threshold slider of the rendered page, which reruns the script
MoveSlider ==
    /\ pc = "done"
    /\ \E th \in SliderValues :
          /\ th # target_threshold
          /\ target_threshold' = th
    /\ UNCHANGED selected_states
    /\ StartOver

\* the user reruns the script with the widgets as they are (also after a halted pass)
Rerun ==
    /\ pc \in {"done", "stopped", "halted"}
    /\ UNCHANGED <<selected_states, target_threshold>>
    /\ StartOver

Next ==
    \/ LoadData
    \/ EmptyGuard
    \/ Filter
    \/ ComputeKpis
    \/ RankSalesmen
    \/ Rollup
    \/ Support
    \/ SelectRegions
    \/ MoveSlider
    \/ Rerun

Spec == Init /\ [][Next]_vars

-----------------------------------------------------------------------------
(* The ranking on files of at least TopN + BottomN rows, widgets at their defaults *)

InitRank ==
    /\ \E f \in RankFiles : Fresh(f)
    /\ rn = IdleRename

NextRank ==
    \/ LoadData
    \/ EmptyGuard
    \/ Filter
    \/ ComputeKpis
    \/ RankSalesmen

SpecRank == InitRank /\ [][NextRank]_vars

-----------------------------------------------------------------------------
(* The rename map applied once and twice to a schema *)

InitRename ==
    /\ Fresh(MissingFile)
    /\ \E s \in Schemas : rn = [cols |-> s, once |-> <<>>, twice |-> <<>>, step |-> 0]

RenameOnce ==
    /\ rn.step = 0
    /\ rn' = [rn EXCEPT !.once = RenameColumns(rn.cols), !.step = 1]
    /\ UNCHANGED <<file, cache, reads, pc, message, df, selected_states, target_threshold,
                   df_filtered, kpi, ranking, fig_region, df_support, first_load>>

RenameTwice ==
    /\ rn.step = 1
    /\ rn' = [rn EXCEPT !.twice = RenameColumns(rn.once), !.step = 2]
    /\ UNCHANGED <<file, cache, reads, pc, message, df, selected_states, target_threshold,
                   df_filtered, kpi, ranking, fig_region, df_support, first_load>>

NextRename == RenameOnce \/ RenameTwice

SpecRename == InitRename /\ [][NextRename]_vars

-----------------------------------------------------------------------------
(* Properties *)

ViewPcs == {"kpis", "ranking", "rollup", "support", "done"}

NoViews ==
    /\ df_filtered = EmptyFrame
    /\ kpi = NoKpis
    /\ ranking = NoRanking
    /\ fig_region = NoFig
    /\ df_support = <<>>

\* C1: with the source file missing, load_data shows the error and returns the empty
\* table and the pass stops at the guard; with the file unreadable the pass ends in the
\* load with the exception shown; no pass computes a view from an empty table
C1_MissingFileHalts ==
    /\ ~file.exists =>
          /\ pc \in {"start", "guard", "stopped"}
          /\ pc \in {"guard", "stopped"} => (message = "error" /\ IsEmpty(df))
          /\ NoViews
    /\ (file.exists /\ ~file.readable) =>
          /\ pc \in {"start", "halted"}
          /\ pc = "halted" => message = "exception"
          /\ NoViews
    /\ pc \in {"filter"} \cup ViewPcs => ~IsEmpty(df)

C1_Witness == ~file.exists /\ pc = "stopped" /\ message = "error" /\ reads = 1

PctPairs ==
    {<<"Target Hit %", "Target_Hit_Pct">>, <<"Away From Target %", "Away_From_Target_Pct">>}

AllNumeric(f, c) ==
    Len(f.rows) > 0 /\ \A i \in 1..Len(f.rows) : IsNumber(f.rows[i][c])

IsPercentText(x) ==
    Len(x) >= 2 /\ x[Len(x)] = "%" /\ IsNumber(SubSeq(x, 1, Len(x) - 1))

AllPercentText(f, c) ==
    Len(f.rows) > 0 /\ \A i \in 1..Len(f.rows) : IsPercentText(f.rows[i][c])

\* C2: in the loaded table a percentage column the file holds as numbers keeps each
\* number as read, and one the file holds as "NN.NN%" texts holds value/100 in every row
C2_TypeGuardedNormalization ==
    (cache.filled /\ file.readable) =>
        \A p \in PctPairs :
            /\ AllNumeric(file, p[1]) =>
                  \A i \in 1..Len(file.rows) :
                      cache.value.rows[i].cells[p[2]] = ParseFloat(file.rows[i][p[1]])
            /\ AllPercentText(file, p[1]) =>
                  \A i \in 1..Len(file.rows) :
                      cache.value.rows[i].cells[p[2]] * Hundred =
                          ParseFloat(SubSeq(file.rows[i][p[1]], 1, Len(file.rows[i][p[1]]) - 1))

C2_Witness ==
    /\ cache.filled
    /\ file.readable
    /\ Len(file.rows) = 2
    /\ AllPercentText(file, "Target Hit %")
    /\ AllNumeric(file, "Away From Target %")
    /\ cache.value.rows[1].cells["Target_Hit_Pct"] = (6 * Unit) \div 10
    /\ cache.value.rows[1].cells["Away_From_Target_Pct"] = (4 * Unit) \div 10

\* C3: once filtered, the filtered table is the loaded table when "All Regions" is
\* selected, and otherwise holds only rows of the loaded table whose region is selected
C3_FilterIsSubset ==
    pc \in ViewPcs =>
        /\ AllRegions \in selected_states => df_filtered = df
        /\ AllRegions \notin selected_states =>
              \A i \in 1..Len(df_filtered.rows) :
                  /\ df_filtered.rows[i].cells["Region"] \in selected_states
                  /\ \E j \in 1..Len(df.rows) : df.rows[j] = df_filtered.rows[i]

C3_Witness ==
    /\ pc = "done"
    /\ AllRegions \notin selected_states
    /\ Len(df_filtered.rows) > 0
    /\ Len(df_filtered.rows) < Len(df.rows)

\* C4: at the end of a pass a filtered row is in the support list iff its
\* Target_Hit_Pct is strictly below the threshold, and the list ascends by Target_Hit_Pct
C4_SupportListMembership ==
    pc = "done" =>
        /\ \A i \in 1..Len(df_filtered.rows) :
              (df_filtered.rows[i] \in {df_support[k] : k \in 1..Len(df_support)})
                  <=> (df_filtered.rows[i].cells["Target_Hit_Pct"] < target_threshold)
        /\ \A k \in 1..Len(df_support) :
              \E i \in 1..Len(df_filtered.rows) : df_filtered.rows[i] = df_support[k]
        /\ \A j, k \in 1..Len(df_support) :
              j < k => df_support[j].cells["Target_Hit_Pct"] <= df_support[k].cells["Target_Hit_Pct"]

C4_Witness ==
    /\ pc = "done"
    /\ Len(df_support) = 2
    /\ df_support[1].index > df_support[2].index
    /\ df_support[1].cells["Target_Hit_Pct"] < df_support[2].cells["Target_Hit_Pct"]

SalesOf(rows) == {rows[i].cells["Total_Sales"] : i \in 1..Len(rows)}

Unselected ==
    SelectSeq(df_filtered.rows,
              LAMBDA r : r.index \notin Indexes(ranking.top_5) \cup Indexes(ranking.bottom_5))

\* C5: on a filtered table of at least 10 rows top_5 and bottom_5 are five rows each,
\* share no row, and no unselected row sells more than a top row or less than a bottom row
C5_TopBottomExtremes ==
    (pc = "rollup" /\ Len(df_filtered.rows) >= TopN + BottomN) =>
        /\ Cardinality(Indexes(ranking.top_5)) = TopN
        /\ Cardinality(Indexes(ranking.bottom_5)) = BottomN
        /\ Indexes(ranking.top_5) \cap Indexes(ranking.bottom_5) = {}
        /\ Indexes(ranking.top_5) \cup Indexes(ranking.bottom_5) \subseteq Indexes(df_filtered.rows)
        /\ \A t \in SalesOf(ranking.top_5), u \in SalesOf(Unselected) : t >= u
        /\ \A u \in SalesOf(Unselected), b \in SalesOf(ranking.bottom_5) : u >= b
        /\ \A t \in SalesOf(ranking.top_5), b \in SalesOf(ranking.bottom_5) : t >= b

C5_Witness ==
    /\ pc = "rollup"
    /\ Len(df_filtered.rows) = TopN + BottomN + 1
    /\ Len(Unselected) = 1
    /\ SalesOf(ranking.top_5) = {200}
    /\ SalesOf(Unselected) = {200}
    /\ SalesOf(ranking.bottom_5) = {100, 200}

\* C6 as claimed: the process reads the source file at most once
C6_ReadAtMostOnce == reads <= 1

\* C6 amended: once a call of load_data has returned, no later call reads the file and
\* the cached table stays what it is
C6_NoReadAfterReturn == [][cache.filled => (reads' = reads /\ cache' = cache)]_vars

C6_Witness ==
    /\ cache.filled
    /\ file.readable
    /\ reads = 1
    /\ pc = "done"
    /\ selected_states # {AllRegions}
    /\ target_threshold # SliderDefault

\* C7: past the load, df and the cached table are the table the first load returned
C7_LoadedTableUnchanged ==
    pc \notin {"start", "halted"} =>
        /\ first_load.set
        /\ cache.filled
        /\ df = first_load.value
        /\ cache.value = first_load.value

C7_Witness ==
    /\ pc = "done"
    /\ first_load.set
    /\ Len(df_filtered.rows) < Len(df.rows)
    /\ Len(df_support) > 0
    /\ df = first_load.value

\* a percentage cell of the file that is no number once its '%' are removed
Malformed(f) ==
    /\ f.readable
    /\ \E p \in PctPairs, i \in 1..Len(f.rows) : ~IsNumber(StripPct(f.rows[i][p[1]]))

C9_RenameIdempotent ==
    rn.step = 2 =>
        /\ rn.twice = rn.once
        /\ \A i \in 1..Len(rn.cols) :
              rn.cols[i] \notin DOMAIN RenameMap => rn.once[i] = rn.cols[i]

C9_Witness ==
    /\ rn.step = 2
    /\ rn.cols = <<"Total Sales", "Region", "Target_Hit_Pct">>
    /\ rn.once = <<"Total_Sales", "Region", "Target_Hit_Pct">>

\* C10: every bar of the regional chart is green iff the average of the region it
\* shows is at least 1.0
C10_BarColourMatchesRegion ==
    pc \in {"support", "done"} =>
        \A k \in 1..Len(fig_region.x) :
            (fig_region.marker_color[k] = "green") <=> RatGeq(fig_region.y[k], TargetMet)

====
